---- MODULE Spec2Model ----
(***************************************************************************)
(* Model of the robotic-testing backend's ingestion pipeline:              *)
(*   app/services/data_manager.py      DataManager (store + broadcast hub) *)
(*   app/services/validation.py        DataValidator                       *)
(*   app/services/sensor_simulator.py  BaseSensorSimulator, SensorManager  *)
(*   app/api/routes/sessions.py        start/stop/reset_session            *)
(*   app/api/routes/sensors.py         get_sensor_readings                 *)
(*                                                                         *)
(* Each sensor simulator runs _run_simulation in its own thread; the       *)
(* callback is DataManager.add_sensor_data (a coroutine function), and     *)
(* inside a simulator thread asyncio.create_task has no running loop, so   *)
(* the RuntimeError branch runs asyncio.run(callback(reading)): one ingest *)
(* runs to completion inside the simulator's thread, concurrently with the *)
(* other simulator threads and with the main event loop that serves the    *)
(* routes.  Threads are pre-empted between the statements modelled as      *)
(* separate steps below; coroutines of the main loop only give way to each *)
(* other at an await that suspends (websocket.send_text).                  *)
(***************************************************************************)
EXTENDS Integers, Sequences, FiniteSets, TLC

\* ------------------------------------------------------------------ bounds
\* settings.MAX_DATA_POINTS (10000 in config.py), scaled down
MAX_DATA_POINTS == 2
\* number of distinct observer sinks (websocket objects)
NumObservers == 2
\* longest observer list register may build
MaxConns == 2
\* events (generated readings + control requests) of a run, per specification
MaxClockStore == 5
MaxClockHub == 2
MaxClockWs == 2
MaxClockConc == 4
MaxClockFan == 3
MaxClockLive == 2
MaxClockSrc == 4
MaxClockVal == 4
MaxClockPay == 3
MaxClockIn == 3
MaxClockChurn == 2
MaxClockCtl == 3
\* entries the validator keeps of the FORCE history (50 in validation.py),
\* scaled down; the spike rule reads the last 3
HISTORY_CAP == 3
\* largest limit a reader asks for
MaxQueryLimit == 3

\* --------------------------------------------------------------- constants
FORCE_THRESHOLD_HIGH == 80
MOTOR_THRESHOLD == 55
SPIKE_DELTA == 50
BRIGHTNESS_LOW == 30
BRIGHTNESS_HIGH == 240
DEFAULT_BRIGHTNESS == 128

\* SensorType enum
SensorType == {"force", "motor", "camera"}
Observers == 1..NumObservers
\* one simulator thread per sensor kind, plus the control path of the main loop
Producers == SensorType
Ctl == "ctl"
\* a second request served by the main loop while the first is suspended
Ctl2 == "ctl2"
Controls == {Ctl, Ctl2}
Threads == Producers \cup Controls
KindOf(t) == t

\* Optional[float] None of session_start_time
None == 0 - 1

VARIABLES
  sensor_data,            \* DataManager.sensor_data: list of readings
  validation_results,     \* DataManager.validation_results: list of alerts
  websocket_connections,  \* DataManager.websocket_connections: list of observers
  recording,              \* DataManager.recording
  session_start_time,     \* DataManager.session_start_time (None or a time)
  validation_history,     \* DataValidator.validation_history: kind -> list of values
  running,                \* BaseSensorSimulator.running, per kind
  mgr_running,            \* SensorManager.running
  pc,                     \* position of every thread / call-path
  cur,                    \* the reading a producer is ingesting
  tmp,                    \* a producer's evaluated slice sensor_data[-MAX:]
  bc,                     \* per thread: frame of the broadcast it is inside
  op,                     \* the control request the control path is serving
  dur,                    \* stop_recording's local session_duration
  unreg,                  \* observer whose remove_websocket_connection passed its membership test
  clock,                  \* logical time: advances at every reading and request
  sink,                   \* per observer (websocket): "new", "open", "stuck", "closed", "gone"
  inbox,                  \* per observer: messages delivered, in order
  resp,                   \* last response of a control request
  raised,                 \* exceptions that escaped to a caller
  snapshot,               \* last copy a reader took of sensor_data
  accepted,               \* history: readings appended since the last start
  nbcast,                 \* history: broadcasts started so far
  last,                   \* history: outcome of the last finished broadcast
  sched,                  \* the run's scheduling: "store", "hub", "ws", "src" (calls one
                          \* at a time) or "conc", "fan", "live" (threads interleave)
  loops,                  \* per kind: live threads that run _run_simulation
  skipped,                \* per kind: time of the last tick whose error was caught
                          \* and printed (0: none)
  verdict                 \* the last direct call of validate_reading: its reading,
                          \* the alert it returned, the FORCE history it found

storeVars == <<sensor_data, validation_results, recording, session_start_time>>
hubVars == <<websocket_connections, bc, unreg>>
simVars == <<running, mgr_running>>
envVars == <<clock, sink, inbox>>
histVars == <<accepted, nbcast, last>>
vars == <<sensor_data, validation_results, websocket_connections, recording,
          session_start_time, validation_history, running, mgr_running, pc, cur,
          tmp, bc, op, dur, unreg, clock, sink, inbox, resp, raised, snapshot,
          accepted, nbcast, last, sched, loops, skipped, verdict>>

\* calls run to completion one after the other
Sequential == sched \in {"store", "hub", "ws", "src", "val", "pay", "in"}

\* the callers are arbitrary users of the DataManager's methods, not only the
\* websocket route (which registers every socket once)
ApiLevel == sched = "hub"

\* ------------------------------------------------------------ list helpers
\* Python s[-n:] for n > 0
LastN(s, n) == IF Len(s) > n THEN SubSeq(s, Len(s) - n + 1, Len(s)) ELSE s

InSeq(x, s) == \E i \in 1..Len(s) : s[i] = x

FirstIndex(x, s) == CHOOSE i \in 1..Len(s) : s[i] = x /\ \A j \in 1..(i - 1) : s[j] # x

\* Python list.remove(x) on a list that holds x: drops the first occurrence
RemoveFirst(s, x) == SubSeq(s, 1, FirstIndex(x, s) - 1) \o SubSeq(s, FirstIndex(x, s) + 1, Len(s))

Count(x, s) == Cardinality({i \in 1..Len(s) : s[i] = x})

Abs(n) == IF n < 0 THEN 0 - n ELSE n

RECURSIVE SumOf(_)
\* sum(f.values()) of a dict of numbers
SumOf(f) ==
  IF DOMAIN f = {} THEN 0
  ELSE LET k == CHOOSE x \in DOMAIN f : TRUE
       IN  f[k] + SumOf([x \in DOMAIN f \ {k} |-> f[x]])

\* ---------------------------------------------------------------- records
\* SensorReading.  The payload (value: Union[float, int, Dict[str, Any]]) is
\* represented by its Python type, shape, and by one number: a float or int
\* ("number") by itself, a dict with a brightness ("record") by its
\* brightness, the one field validation reads; a dict without a brightness
\* ("empty_record") carries no number
PayloadShapes == {"number", "record", "empty_record"}

\* the payload type a simulator of kind k generates
ShapeOf(k) == IF k = "camera" THEN "record" ELSE "number"

Reading(ts, k, v) == [timestamp |-> ts, sensor_type |-> k, value |-> v,
                      shape |-> ShapeOf(k)]
NoReading == [timestamp |-> 0, sensor_type |-> "none", value |-> 0, shape |-> "none"]

\* ValidationResult; NoAlert stands for a None return
Alert(k, st, m, r) == [sensor_type |-> k, status |-> st, message |-> m,
                       timestamp |-> r.timestamp, actual |-> r.value]
NoAlert == [sensor_type |-> "none", status |-> "valid", message |-> "none",
            timestamp |-> 0, actual |-> 0]

\* a broadcast message: type, the reading (or request time) it is about, and
\* the position of its broadcast call in start order
Msg(ty, ref) == [type |-> ty, ref |-> ref, bid |-> 0]
NoMsg == [type |-> "none", ref |-> 0, bid |-> 0]

\* the frame of one _broadcast_message / _broadcast_sensor_data call:
\*   it      "none" before the for loop took its iterator, "live" while the
\*           iterated list object is still self.websocket_connections,
\*           "det" once another call replaced that attribute
\*   det     the iterated list once detached
\*   idx     elements the iterator has passed
\*   target  the observer whose send_text is awaited (0: none)
\*   active  active_connections
\*   before  history: the list when the iterator was taken
\*   failed  history: observers whose send_text raised in this call
\*   sent    history: observers whose send_text completed in this call
NoFrame == [msg |-> NoMsg, it |-> "none", det |-> <<>>, idx |-> 0, target |-> 0,
            active |-> <<>>, before |-> <<>>, failed |-> {}, sent |-> {}]
Frame(m) == [NoFrame EXCEPT !.msg = m]

NoResp == [op |-> "none", status |-> "none", total_readings |-> 0,
           validation_alerts |-> 0, session_duration |-> None]

\* nothing was validated by a direct call yet (arrived: the payloads of the
\* FORCE readings the direct calls were made with, oldest first)
NoVerdict == [reading |-> NoReading, alert |-> NoAlert, before |-> <<>>,
              raises |-> FALSE, arrived |-> <<>>]

NoLast == [by |-> "none", msg |-> NoMsg, before |-> <<>>, failed |-> {},
           sent |-> {}, after |-> <<>>]

\* ------------------------------------------------------------- validation
\* the entry _validate_force_reading appends to the FORCE history: the
\* payload as it came (the entry's timestamp is never read)
HistEntry(r) == [value |-> r.value, shape |-> r.shape]

\* a faulty spike test that would only see a rise
DetectSpikeRising(values) ==
  IF Len(values) < 3 THEN FALSE
  ELSE values[Len(values)].value - values[1].value > SPIKE_DELTA

\* a faulty spike test that would compare the two newest values
DetectSpikeAdjacent(values) ==
  IF Len(values) < 3 THEN FALSE
  ELSE Abs(values[Len(values)].value - values[Len(values) - 1].value) > SPIKE_DELTA

\* DataValidator._detect_spike
DetectSpike(values) ==
  IF Len(values) < 3 THEN FALSE
  ELSE Abs(values[Len(values)].value - values[1].value) > SPIKE_DELTA

\* _detect_spike line 155 raises TypeError: one operand of the subtraction
\* is a dict
SpikeRaises(values) ==
  /\ Len(values) >= 3
  /\ (values[Len(values)].shape # "number" \/ values[1].shape # "number")

\* a faulty cap that would keep the oldest entries
ForceHistoryOldestKept(hist, r) ==
  SubSeq(Append(hist, HistEntry(r)), 1,
         IF Len(hist) + 1 > HISTORY_CAP THEN HISTORY_CAP ELSE Len(hist) + 1)

\* history after the append and the cap of _validate_force_reading
ForceHistory(hist, r) == LastN(Append(hist, HistEntry(r)), HISTORY_CAP)

\* a faulty validator whose critical rule would include the threshold itself
ValidateForceInclusiveLimit(hist, r) ==
  LET h == ForceHistory(hist, r)
  IN  IF r.value >= FORCE_THRESHOLD_HIGH
        THEN Alert("force", "error", "critical_force", r)
      ELSE IF r.value * 10 > FORCE_THRESHOLD_HIGH * 8
        THEN Alert("force", "warning", "approaching_limit", r)
      ELSE IF Len(h) >= 3 /\ DetectSpike(LastN(h, 3))
        THEN Alert("force", "warning", "force_spike", r)
      ELSE NoAlert

\* a faulty validator that would look for a spike before the thresholds
ValidateForceSpikeFirst(hist, r) ==
  LET h == ForceHistory(hist, r)
  IN  IF Len(h) >= 3 /\ DetectSpike(LastN(h, 3))
        THEN Alert("force", "warning", "force_spike", r)
      ELSE IF r.value > FORCE_THRESHOLD_HIGH
        THEN Alert("force", "error", "critical_force", r)
      ELSE IF r.value * 10 > FORCE_THRESHOLD_HIGH * 8
        THEN Alert("force", "warning", "approaching_limit", r)
      ELSE NoAlert

\* DataValidator._validate_force_reading: the alert (0.8 * HIGH as 8 * HIGH / 10)
ValidateForce(hist, r) ==
  LET h == ForceHistory(hist, r)
  IN  IF r.value > FORCE_THRESHOLD_HIGH
        THEN Alert("force", "error", "critical_force", r)
      ELSE IF r.value * 10 > FORCE_THRESHOLD_HIGH * 8
        THEN Alert("force", "warning", "approaching_limit", r)
      ELSE IF Len(h) >= 3 /\ DetectSpike(LastN(h, 3))
        THEN Alert("force", "warning", "force_spike", r)
      ELSE NoAlert

\* a faulty motor rule that would compare the signed value
ValidateMotorSigned(r) ==
  IF r.value > MOTOR_THRESHOLD
    THEN Alert("motor", "warning", "approaching_operational_limits", r)
  ELSE NoAlert

\* DataValidator._validate_motor_reading
ValidateMotor(r) ==
  IF Abs(r.value) > MOTOR_THRESHOLD
    THEN Alert("motor", "warning", "approaching_operational_limits", r)
  ELSE NoAlert

\* a faulty lookup without a default for the missing field
BrightnessOrZero(r) == IF r.shape = "empty_record" THEN 0 ELSE r.value

\* line 120: camera_data.get('brightness', 128)
Brightness(r) == IF r.shape = "empty_record" THEN DEFAULT_BRIGHTNESS ELSE r.value

\* DataValidator._validate_camera_reading
ValidateCamera(r) ==
  IF Brightness(r) < BRIGHTNESS_LOW
    THEN Alert("camera", "warning", "insufficient_lighting", r)
  ELSE IF Brightness(r) > BRIGHTNESS_HIGH
    THEN Alert("camera", "warning", "overexposure", r)
  ELSE NoAlert

\* validate_reading raises on the payload: a dict compared with a number
\* (line 50) or handed to abs() (line 96), .get of a float (line 120), or a
\* dict that an earlier FORCE reading left in the history and that the spike
\* test of a FORCE reading below both thresholds subtracts (line 155)
ValidationRaises(hists, r) ==
  IF r.sensor_type = "camera" THEN r.shape = "number"
  ELSE IF r.sensor_type = "motor" THEN r.shape # "number"
  ELSE \/ r.shape # "number"
       \/ /\ r.value * 10 <= FORCE_THRESHOLD_HIGH * 8
          /\ SpikeRaises(LastN(ForceHistory(hists["force"], r), 3))

\* DataValidator.validate_reading: the alert returned
ValidateReading(hists, r) ==
  IF r.sensor_type = "force" THEN ValidateForce(hists["force"], r)
  ELSE IF r.sensor_type = "motor" THEN ValidateMotor(r)
  ELSE IF r.sensor_type = "camera" THEN ValidateCamera(r)
  ELSE NoAlert

\* a faulty validator that would keep one history for every kind
HistoryShared(hists, r) ==
  [hists EXCEPT !["force"] = ForceHistory(hists["force"], r)]

\* DataValidator.validate_reading: validation_history afterwards
HistoryAfter(hists, r) ==
  IF r.sensor_type = "force"
    THEN [hists EXCEPT !["force"] = ForceHistory(hists["force"], r)]
  ELSE hists

\* ---------------------------------------------------------- session store
\* add_sensor_data line 40: the test that triggers eviction
OverCapacity(buf) == Len(buf) > MAX_DATA_POINTS

\* a faulty eviction that would keep the oldest readings: buf[:MAX]
EvictedOldestKept(buf) == SubSeq(buf, 1, MAX_DATA_POINTS)

\* add_sensor_data line 41: self.sensor_data[-settings.MAX_DATA_POINTS:]
Evicted(buf) == LastN(buf, MAX_DATA_POINTS)

\* a faulty clear that would keep the list
ClearSkipped(buf) == buf

\* list.clear(): start_recording lines 56-57, reset_session lines 90-91
Cleared(buf) == <<>>

\* a faulty summary that would count every reading accepted in the session
StopSummaryOfAccepted(d) ==
  [op |-> "stop", status |-> "stopped",
   total_readings |-> Len(accepted),
   validation_alerts |-> Len(validation_results),
   session_duration |-> d]

\* stop_recording lines 71-75, as stop_session lines 54-58 return it
StopSummary(d) ==
  [op |-> "stop", status |-> "stopped",
   total_readings |-> Len(sensor_data),
   validation_alerts |-> Len(validation_results),
   session_duration |-> d]

\* get_data_summary lines 107-110: the kinds the buffer holds, with their counts
SensorBreakdown(buf) ==
  [k \in {buf[i].sensor_type : i \in 1..Len(buf)} |->
     Cardinality({i \in 1..Len(buf) : buf[i].sensor_type = k})]

\* get_data_summary lines 113-115
SummaryDuration(buf) ==
  IF Len(buf) > 1 THEN buf[Len(buf)].timestamp - buf[1].timestamp ELSE None

\* DataManager.get_data_summary: the dict returned in the present state
GetDataSummary ==
  IF sensor_data = <<>> THEN [message |-> "No data recorded"]
  ELSE [total_readings |-> Len(sensor_data),
        sensor_breakdown |-> SensorBreakdown(sensor_data),
        validation_alerts |-> Len(validation_results),
        session_duration_seconds |-> SummaryDuration(sensor_data),
        recording_active |-> recording,
        connected_clients |-> Len(websocket_connections)]

\* an optional query parameter that was not supplied (Python None)
NoKind == "none"

\* Python truth value of an Optional[float]: None and 0.0 are false
Truthy(x) == x # None /\ x # 0

\* get_sensor_readings lines 26-41: the list returned for the query
\* (sensor_type, limit, start_time, end_time) in the present state
GetSensorReadings(kind, limit, start_time, end_time) ==
  LET r0 == sensor_data
      r1 == IF kind # NoKind
              THEN SelectSeq(r0, LAMBDA r : r.sensor_type = kind) ELSE r0
      r2 == IF Truthy(start_time)
              THEN SelectSeq(r1, LAMBDA r : r.timestamp >= start_time) ELSE r1
      r3 == IF Truthy(end_time)
              THEN SelectSeq(r2, LAMBDA r : r.timestamp <= end_time) ELSE r2
  IN  LastN(r3, limit)

\* a faulty start_session that would never reject
NoSessionCheck == FALSE

\* start_session line 23: the request is rejected with HTTP 400
SessionInProgress == recording

\* a faulty stop_session that would never reject
NoIdleCheck == FALSE

\* stop_session line 47: the request is rejected with HTTP 400
NoActiveSession == ~recording

\* ----------------------------------------------------------- broadcast hub
\* a faulty unregister that would remove without the membership test
AlwaysConnected(conns, ws) == TRUE

\* remove_websocket_connection line 132: websocket in self.websocket_connections
IsConnected(conns, ws) == InSeq(ws, conns)

\* a faulty loop that would keep an observer whose send raised
KeptWhateverHappens(active, ws, ok) == Append(active, ws)

\* the try/except of the broadcast loop: active_connections after one send
ActiveAfterSend(active, ws, ok) == IF ok THEN Append(active, ws) ELSE active

\* the list a broadcast frame iterates
IterList(f) == IF f.it = "det" THEN f.det ELSE websocket_connections


\* add_websocket_connection line 128
AddConnection(conns, ws) == Append(conns, ws)

\* ------------------------------------------------------------- scheduling
Limit ==
  IF sched = "store" THEN MaxClockStore
  ELSE IF sched = "hub" THEN MaxClockHub
  ELSE IF sched = "ws" THEN MaxClockWs
  ELSE IF sched = "conc" THEN MaxClockConc
  ELSE IF sched = "fan" THEN MaxClockFan
  ELSE IF sched = "src" THEN MaxClockSrc
  ELSE IF sched = "val" THEN MaxClockVal
  ELSE IF sched = "pay" THEN MaxClockPay
  ELSE IF sched = "in" THEN MaxClockIn
  ELSE IF sched = "churn" THEN MaxClockChurn
  ELSE IF sched = "ctl" THEN MaxClockCtl
  ELSE MaxClockLive

\* timestamps a reading is constructed with: the simulators pass time.time(),
\* any other caller of the constructor passes what it likes
GenTimes == IF sched = "in" THEN {0 - 1, 0, clock + 1} ELSE {clock + 1}

\* a faulty validator that would let the timestamp 0 through
TimestampNotNegative(ts) == ts >= 0

\* SensorReading.validate_timestamp lines 34-36: ValueError unless v > 0
TimestampOk(ts) == ts > 0

\* values generate_data may return, per kind (force N, motor RPM, brightness)
\* payload types a caller of the callback may hand over: the simulators build
\* their own kind's, SensorReading.value admits float, int and dict for any kind
GenShapes(k) == IF ApiLevel THEN {"number", "record"} ELSE {ShapeOf(k)}

GenValues(k) ==
  IF k = "force" THEN {30, 85}
  ELSE IF k = "motor" THEN {30}
  ELSE {128}

\* thread t is inside a call: a request being served, or add_sensor_data once
\* entered (a simulator that holds a fresh reading has not yet made the call)
Busy(t) == IF t \in Controls THEN pc[t] # "idle" ELSE pc[t] \notin {"dead", "loop", "accept"}

Quiet == unreg = 0 /\ \A t \in Threads : ~Busy(t)

\* thread t may take a step
Go(t) ==
  IF Sequential
    THEN unreg = 0 /\ \A u \in Threads \ {t} : ~Busy(u)
    ELSE t \in Controls => \A d \in Controls \ {t} : pc[d] \in {"idle", "b_send"}

\* the main loop is free to run another handler: the control coroutine is at
\* rest or suspended in send_text, and no handler is half way
EventOk ==
  /\ unreg = 0
  /\ IF Sequential THEN Quiet ELSE \A c \in Controls : pc[c] \in {"idle", "b_send"}

\* ------------------------------------------------------------------- init
InitCommon ==
  /\ sensor_data = <<>>
  /\ validation_results = <<>>
  /\ websocket_connections = <<>>
  /\ recording = FALSE
  /\ session_start_time = None
  /\ validation_history = [k \in SensorType |-> <<>>]
  /\ running = [k \in SensorType |-> FALSE]
  /\ mgr_running = FALSE
  /\ pc = [t \in Threads |-> IF t \in Controls THEN "idle" ELSE "dead"]
  /\ cur = [t \in Threads |-> NoReading]
  /\ tmp = [t \in Threads |-> <<>>]
  /\ bc = [t \in Threads |-> NoFrame]
  /\ op = [c \in Controls |-> "none"]
  /\ dur = [c \in Controls |-> None]
  /\ unreg = 0
  /\ clock = 0
  /\ sink = [o \in Observers |-> "new"]
  /\ inbox = [o \in Observers |-> <<>>]
  /\ resp = NoResp
  /\ raised = {}
  /\ snapshot = <<>>
  /\ accepted = <<>>
  /\ nbcast = 0
  /\ last = NoLast
  /\ loops = [k \in SensorType |-> 0]
  /\ skipped = [k \in SensorType |-> 0]
  /\ verdict = NoVerdict

Init == InitCommon /\ sched = "store"

InitHub == InitCommon /\ sched = "hub"

InitWs == InitCommon /\ sched = "ws"

InitConc == InitCommon /\ sched = "conc"

InitFan == InitCommon /\ sched = "fan"

InitLive == InitCommon /\ sched = "live"

InitSrc == InitCommon /\ sched = "src"

InitVal == InitCommon /\ sched = "val"

InitPay == InitCommon /\ sched = "pay"

InitIn == InitCommon /\ sched = "in"

InitChurn == InitCommon /\ sched = "churn"

InitCtl == InitCommon /\ sched = "ctl"

\* ------------------------------------------- simulator thread: _run_simulation
\* a faulty loop that would not look at the flag
LoopIgnoresFlag(t) == TRUE

\* line 52: while self.running
LoopRuns(t) == running[KindOf(t)]

\* a faulty handler whose caught error would end the thread
LoopKilled == "dead"

\* lines 75-76: except Exception: print(...), and the while statement again
AfterGeneratorError == "loop"

\* while self.running: generate_data(), SensorReading(time.time(), ...).  The
\* constructor raises ValueError on a timestamp it rejects: no reading exists
\* and nothing is handed to the callback
Generate(t) ==
  /\ t \in Producers /\ pc[t] = "loop" /\ LoopRuns(t)
  /\ clock < Limit /\ Go(t)
  /\ \E v \in GenValues(KindOf(t)), sh \in GenShapes(KindOf(t)), ts \in GenTimes :
       IF TimestampOk(ts)
         THEN /\ cur' = [cur EXCEPT ![t] = [Reading(ts, KindOf(t), v) EXCEPT !.shape = sh]]
              /\ pc' = [pc EXCEPT ![t] = "accept"]
              /\ UNCHANGED raised
         ELSE /\ raised' = raised \cup {"ValueError"}
              /\ UNCHANGED <<cur, pc>>
  /\ clock' = clock + 1
  /\ UNCHANGED <<storeVars, hubVars, simVars, validation_history, tmp, op, dur,
                 sink, inbox, resp, snapshot, histVars, sched, loops, skipped, verdict>>

\* generate_data() raises on this tick: the except of lines 75-76 prints the
\* error, no reading is built, the callback is not called, the loop goes on
GenerateError(t) ==
  /\ t \in Producers /\ pc[t] = "loop" /\ LoopRuns(t)
  /\ clock < Limit /\ Go(t)
  /\ clock' = clock + 1
  /\ skipped' = [skipped EXCEPT ![KindOf(t)] = clock + 1]
  /\ pc' = [pc EXCEPT ![t] = AfterGeneratorError]
  /\ UNCHANGED <<storeVars, hubVars, simVars, validation_history, cur, tmp, op,
                 dur, sink, inbox, resp, raised, snapshot, histVars, sched, loops,
                 verdict>>

\* while self.running is false: the thread ends (the slot stays in the loop
\* for another live thread of the same source, if start() made one)
ExitLoop(t) ==
  /\ t \in Producers /\ pc[t] = "loop" /\ ~LoopRuns(t) /\ Go(t)
  /\ loops' = [loops EXCEPT ![KindOf(t)] = loops[KindOf(t)] - 1]
  /\ pc' = [pc EXCEPT ![t] = IF loops[KindOf(t)] > 1 THEN "loop" ELSE "dead"]
  /\ UNCHANGED <<storeVars, hubVars, simVars, envVars, validation_history, cur,
                 tmp, op, dur, resp, raised, snapshot, histVars, sched, skipped, verdict>>

\* ------------------------------------------------ add_sensor_data, by steps
\* a faulty add_sensor_data that would store whatever the session state
StoreAlways == TRUE

\* line 36: if self.recording
StoreReading == recording

\* lines 36-37: if self.recording: self.sensor_data.append(reading)
Accept(t) ==
  /\ t \in Producers /\ pc[t] = "accept" /\ Go(t)
  /\ IF StoreReading
       THEN /\ sensor_data' = Append(sensor_data, cur[t])
            /\ accepted' = Append(accepted, cur[t])
            /\ pc' = [pc EXCEPT ![t] = "evict"]
       ELSE /\ pc' = [pc EXCEPT ![t] = "validate"]
            /\ UNCHANGED <<sensor_data, accepted>>
  /\ UNCHANGED <<validation_results, recording, session_start_time, hubVars,
                 simVars, envVars, validation_history, cur, tmp, op, dur, resp,
                 raised, snapshot, nbcast, last, sched, loops, skipped, verdict>>

\* line 40: if len(self.sensor_data) > settings.MAX_DATA_POINTS
EvictCheck(t) ==
  /\ t \in Producers /\ pc[t] = "evict" /\ Go(t)
  /\ pc' = [pc EXCEPT ![t] = IF OverCapacity(sensor_data) THEN "slice" ELSE "validate"]
  /\ UNCHANGED <<storeVars, hubVars, simVars, envVars, validation_history, cur,
                 tmp, op, dur, resp, raised, snapshot, histVars, sched, loops, skipped, verdict>>

\* line 41, right-hand side: the slice is a new list
Slice(t) ==
  /\ t \in Producers /\ pc[t] = "slice" /\ Go(t)
  /\ tmp' = [tmp EXCEPT ![t] = Evicted(sensor_data)]
  /\ pc' = [pc EXCEPT ![t] = "assign"]
  /\ UNCHANGED <<storeVars, hubVars, simVars, envVars, validation_history, cur,
                 op, dur, resp, raised, snapshot, histVars, sched, loops, skipped, verdict>>

\* line 41, the store into self.sensor_data
Assign(t) ==
  /\ t \in Producers /\ pc[t] = "assign" /\ Go(t)
  /\ sensor_data' = tmp[t]
  /\ tmp' = [tmp EXCEPT ![t] = <<>>]
  /\ pc' = [pc EXCEPT ![t] = "validate"]
  /\ UNCHANGED <<validation_results, recording, session_start_time, hubVars,
                 simVars, envVars, validation_history, cur, op, dur, resp,
                 raised, snapshot, histVars, sched, loops, skipped, verdict>>

\* a faulty add_sensor_data that would not record the alert
AlertNotRecorded(buf, a) == buf

\* a faulty add_sensor_data that would record alerts only while recording
AlertRecordedIfRecording(buf, a) == IF recording THEN Append(buf, a) ELSE buf

\* line 46: self.validation_results.append(validation_result)
RecordAlert(buf, a) == Append(buf, a)

\* lines 44-47 up to the call of _broadcast_validation, else line 50.  When
\* validate_reading raises, the exception leaves add_sensor_data before any
\* broadcast (the simulator's except prints it and the loop goes on)
Validate(t) ==
  /\ t \in Producers /\ pc[t] = "validate" /\ Go(t)
  /\ validation_history' = HistoryAfter(validation_history, cur[t])
  /\ IF ValidationRaises(validation_history, cur[t])
       THEN /\ raised' = raised \cup {"TypeError"}
            /\ pc' = [pc EXCEPT ![t] = "loop"]
            /\ cur' = [cur EXCEPT ![t] = NoReading]
            /\ UNCHANGED <<validation_results, bc>>
       ELSE /\ LET a == ValidateReading(validation_history, cur[t])
               IN  IF a # NoAlert
                     THEN /\ validation_results' = RecordAlert(validation_results, a)
                          /\ bc' = [bc EXCEPT ![t] = Frame(Msg("validation", cur[t].timestamp))]
                     ELSE /\ UNCHANGED validation_results
                          /\ bc' = [bc EXCEPT ![t] = Frame(Msg("sensor_data", cur[t].timestamp))]
            /\ pc' = [pc EXCEPT ![t] = "b_begin"]
            /\ UNCHANGED <<raised, cur>>
  /\ UNCHANGED <<sensor_data, recording, session_start_time, websocket_connections,
                 unreg, simVars, envVars, tmp, op, dur, resp, snapshot, histVars,
                 sched, loops, skipped, verdict>>


\* ------------------------- _broadcast_message / _broadcast_sensor_data, by steps
\* where the caller continues once the broadcast of frame f has returned:
\* add_sensor_data goes on to _broadcast_sensor_data and then back to the loop
\* (after time.sleep); start_recording, stop_recording return to their route
PcAfter(t, f) ==
  IF f.msg.type = "validation" THEN "b_begin"
  ELSE IF f.msg.type = "sensor_data" THEN "loop"
  ELSE IF op[t] = "start" THEN "start_all"
  ELSE IF op[t] = "stop" THEN "stop_ret"
  ELSE "reset_clear_data"

FrameAfter(f) ==
  IF f.msg.type = "validation" THEN Frame(Msg("sensor_data", f.msg.ref)) ELSE NoFrame

CurAfter(t, f) ==
  IF f.msg.type = "sensor_data" THEN [cur EXCEPT ![t] = NoReading] ELSE cur

\* lines 137-138 / 183-184: if not self.websocket_connections: return
BroadcastBegin(t) ==
  /\ pc[t] = "b_begin" /\ Go(t)
  /\ t \in Controls => unreg = 0
  /\ nbcast' = nbcast + 1
  /\ LET f == [bc[t] EXCEPT !.msg.bid = nbcast + 1]
     IN  IF websocket_connections = <<>>
           THEN /\ pc' = [pc EXCEPT ![t] = PcAfter(t, f)]
                /\ bc' = [bc EXCEPT ![t] = FrameAfter(f)]
                /\ cur' = CurAfter(t, f)
           ELSE /\ pc' = [pc EXCEPT ![t] = "b_next"]
                /\ bc' = [bc EXCEPT ![t] = f]
                /\ UNCHANGED cur
  /\ UNCHANGED <<storeVars, websocket_connections, unreg, simVars, envVars,
                 validation_history, tmp, op, dur, resp, raised, snapshot,
                 accepted, last, sched, loops, skipped, verdict>>

\* the for statement: take the iterator of self.websocket_connections on the
\* first pass, then fetch the next element or leave the loop
BroadcastNext(t) ==
  /\ pc[t] = "b_next" /\ Go(t)
  /\ LET f == IF bc[t].it = "none"
                THEN [bc[t] EXCEPT !.it = "live", !.before = websocket_connections]
                ELSE bc[t]
         lst == IterList(f)
     IN  IF f.idx < Len(lst)
           THEN /\ bc' = [bc EXCEPT ![t] = [f EXCEPT !.idx = f.idx + 1,
                                                     !.target = lst[f.idx + 1]]]
                /\ pc' = [pc EXCEPT ![t] = "b_send"]
           ELSE /\ bc' = [bc EXCEPT ![t] = f]
                /\ pc' = [pc EXCEPT ![t] = "b_assign"]
  /\ UNCHANGED <<storeVars, websocket_connections, unreg, simVars, envVars,
                 validation_history, cur, tmp, op, dur, resp, raised, snapshot,
                 histVars, sched, loops, skipped, verdict>>

\* await websocket.send_text(...) completes: the message is delivered, or the
\* closed socket raises and the bare except swallows it.  A stuck sink never
\* completes the send, and nothing bounds the await.
Deliver(t) ==
  /\ pc[t] = "b_send" /\ Go(t)
  /\ t \in Controls => unreg = 0
  /\ LET f == bc[t]
         o == f.target
     IN  /\ sink[o] # "stuck"
         /\ IF sink[o] = "open"
              THEN /\ inbox' = [inbox EXCEPT ![o] = Append(inbox[o], f.msg)]
                   /\ bc' = [bc EXCEPT ![t] =
                        [f EXCEPT !.active = ActiveAfterSend(f.active, o, TRUE),
                                  !.sent = f.sent \cup {o},
                                  !.target = 0]]
              ELSE /\ UNCHANGED inbox
                   /\ bc' = [bc EXCEPT ![t] =
                        [f EXCEPT !.active = ActiveAfterSend(f.active, o, FALSE),
                                  !.failed = f.failed \cup {o},
                                  !.target = 0]]
  /\ pc' = [pc EXCEPT ![t] = "b_next"]
  /\ UNCHANGED <<storeVars, websocket_connections, unreg, simVars, clock, sink,
                 validation_history, cur, tmp, op, dur, resp, raised, snapshot,
                 histVars, sched, loops, skipped, verdict>>

\* lines 154 / 194: self.websocket_connections = active_connections, and return.
\* Loops of other calls that iterate the replaced list object keep iterating it.
BroadcastAssign(t) ==
  /\ pc[t] = "b_assign" /\ Go(t)
  /\ LET f == bc[t]
     IN  /\ websocket_connections' = f.active
         /\ bc' = [u \in Threads |->
                     IF u = t THEN FrameAfter(f)
                     ELSE IF bc[u].it = "live"
                       THEN [bc[u] EXCEPT !.it = "det", !.det = websocket_connections]
                     ELSE bc[u]]
         /\ pc' = [pc EXCEPT ![t] = PcAfter(t, f)]
         /\ cur' = CurAfter(t, f)
         /\ last' = [by |-> t, msg |-> f.msg, before |-> f.before,
                     failed |-> f.failed, sent |-> f.sent,
                     after |-> websocket_connections']
  /\ UNCHANGED <<storeVars, unreg, simVars, envVars, validation_history, tmp, op,
                 dur, resp, raised, snapshot, accepted, nbcast, sched, loops, skipped, verdict>>


\* ------------------------------------------------- SensorManager, by request
\* a faulty start() that would not look at the flag
NeverRunning(k) == FALSE

\* BaseSensorSimulator.start lines 35-36: if self.running: return
AlreadyRunning(k) == running[k]

\* start() lines 38-40 on source k: a new thread unless already running
LoopsAfterStart(k) == IF AlreadyRunning(k) THEN loops[k] ELSE loops[k] + 1

PcAfterStart(k) == IF ~AlreadyRunning(k) /\ pc[k] = "dead" THEN "loop" ELSE pc[k]

\* SensorManager.start_all: simulator.start() for each kind
StartedFlags == [k \in SensorType |-> TRUE]

StartedPc ==
  [t \in Threads |-> IF t \in Producers THEN PcAfterStart(KindOf(t)) ELSE pc[t]]

StartedLoops == [k \in SensorType |-> LoopsAfterStart(k)]

\* SensorManager.stop_all: simulator.stop() for each kind clears the flag and
\* joins the thread for at most a second
StoppedFlags == [k \in SensorType |-> FALSE]

\* BaseSensorSimulator.start() called on one source by any caller
SourceStart(k) ==
  /\ EventOk /\ pc[Ctl] = "idle" /\ clock < Limit
  /\ clock' = clock + 1
  /\ running' = [running EXCEPT ![k] = TRUE]
  /\ loops' = [loops EXCEPT ![k] = LoopsAfterStart(k)]
  /\ pc' = [pc EXCEPT ![k] = PcAfterStart(k)]
  /\ resp' = [NoResp EXCEPT !.op = "source_start",
                            !.status = IF running[k] THEN "already_running" ELSE "started"]
  /\ UNCHANGED <<storeVars, hubVars, mgr_running, sink, inbox, validation_history,
                 cur, tmp, op, dur, raised, snapshot, histVars, sched, skipped, verdict>>

\* BaseSensorSimulator.stop() called on one source by any caller: the flag is
\* cleared, the join gives the thread a second and returns either way
SourceStop(k) ==
  /\ EventOk /\ pc[Ctl] = "idle" /\ clock < Limit
  /\ clock' = clock + 1
  /\ running' = [running EXCEPT ![k] = FALSE]
  /\ resp' = [NoResp EXCEPT !.op = "source_stop", !.status = "stopped"]
  /\ UNCHANGED <<storeVars, hubVars, mgr_running, sink, inbox, validation_history,
                 pc, cur, tmp, op, dur, raised, snapshot, histVars, sched, loops,
                 skipped, verdict>>

\* ------------------------------------------------------ routes/sessions.py
\* start_session up to start_recording lines 54-55
StartSession(c) ==
  /\ pc[c] = "idle" /\ EventOk /\ clock < Limit
  /\ clock' = clock + 1
  /\ IF SessionInProgress
       THEN /\ resp' = [NoResp EXCEPT !.op = "start", !.status = "InvalidState"]
            /\ UNCHANGED <<recording, session_start_time, op, pc, accepted>>
       ELSE /\ recording' = TRUE
            /\ session_start_time' = clock + 1
            /\ op' = [op EXCEPT ![c] = "start"]
            /\ pc' = [pc EXCEPT ![c] = "start_clear_data"]
            /\ accepted' = <<>>
            /\ UNCHANGED resp
  /\ UNCHANGED <<sensor_data, validation_results, hubVars, simVars, sink, inbox,
                 validation_history, cur, tmp, dur, raised, snapshot, nbcast,
                 last, sched, loops, skipped, verdict>>

\* start_recording line 56: self.sensor_data.clear()
StartClearData(c) ==
  /\ pc[c] = "start_clear_data" /\ Go(c)
  /\ sensor_data' = Cleared(sensor_data)
  /\ pc' = [pc EXCEPT ![c] = "start_clear_alerts"]
  /\ UNCHANGED <<validation_results, recording, session_start_time, hubVars,
                 simVars, envVars, validation_history, cur, tmp, op, dur, resp,
                 raised, snapshot, histVars, sched, loops, skipped, verdict>>

\* start_recording lines 57-59: clear the alerts, call _broadcast_system_status
StartClearAlerts(c) ==
  /\ pc[c] = "start_clear_alerts" /\ Go(c)
  /\ validation_results' = Cleared(validation_results)
  /\ bc' = [bc EXCEPT ![c] = Frame(Msg("system_status", clock))]
  /\ pc' = [pc EXCEPT ![c] = "b_begin"]
  /\ UNCHANGED <<sensor_data, recording, session_start_time,
                 websocket_connections, unreg, simVars, envVars,
                 validation_history, cur, tmp, op, dur, resp, raised, snapshot,
                 histVars, sched, loops, skipped, verdict>>

\* start_session lines 31-38: sensor_manager.start_all(), the response
StartAll(c) ==
  /\ pc[c] = "start_all" /\ Go(c)
  /\ mgr_running' = TRUE
  /\ running' = StartedFlags
  /\ loops' = StartedLoops
  /\ pc' = [StartedPc EXCEPT ![c] = "idle"]
  /\ resp' = [NoResp EXCEPT !.op = "start", !.status = "recording"]
  /\ op' = [op EXCEPT ![c] = "none"]
  /\ UNCHANGED <<storeVars, hubVars, envVars, validation_history, cur, tmp, dur,
                 raised, snapshot, histVars, sched, skipped, verdict>>

\* stop_session lines 44-51: the state test and sensor_manager.stop_all()
StopSession(c) ==
  /\ pc[c] = "idle" /\ EventOk /\ clock < Limit
  /\ clock' = clock + 1
  /\ IF NoActiveSession
       THEN /\ resp' = [NoResp EXCEPT !.op = "stop", !.status = "InvalidState"]
            /\ UNCHANGED <<running, mgr_running, op, pc>>
       ELSE /\ running' = StoppedFlags
            /\ mgr_running' = FALSE
            /\ op' = [op EXCEPT ![c] = "stop"]
            /\ pc' = [pc EXCEPT ![c] = "stop_rec"]
            /\ UNCHANGED resp
  /\ UNCHANGED <<storeVars, hubVars, sink, inbox, validation_history, cur, tmp,
                 dur, raised, snapshot, histVars, sched, loops, skipped, verdict>>

\* stop_recording lines 63-69: clear the flag, compute the duration, broadcast
StopRecording(c) ==
  /\ pc[c] = "stop_rec" /\ Go(c)
  /\ recording' = FALSE
  /\ dur' = [dur EXCEPT ![c] = IF session_start_time # None THEN clock - session_start_time ELSE None]
  /\ bc' = [bc EXCEPT ![c] = Frame(Msg("system_status", clock))]
  /\ pc' = [pc EXCEPT ![c] = "b_begin"]
  /\ UNCHANGED <<sensor_data, validation_results, session_start_time,
                 websocket_connections, unreg, simVars, envVars,
                 validation_history, cur, tmp, op, resp, raised, snapshot,
                 histVars, sched, loops, skipped, verdict>>

\* stop_recording lines 71-75 and stop_session lines 54-60: the summary
StopReturn(c) ==
  /\ pc[c] = "stop_ret" /\ Go(c)
  /\ resp' = StopSummary(dur[c])
  /\ dur' = [dur EXCEPT ![c] = None]
  /\ op' = [op EXCEPT ![c] = "none"]
  /\ pc' = [pc EXCEPT ![c] = "idle"]
  /\ UNCHANGED <<storeVars, hubVars, simVars, envVars, validation_history, cur,
                 tmp, raised, snapshot, histVars, sched, loops, skipped, verdict>>

\* reset_session lines 85-87: stop_all(), then stop_recording() if recording
ResetSession(c) ==
  /\ pc[c] = "idle" /\ EventOk /\ clock < Limit
  /\ clock' = clock + 1
  /\ running' = StoppedFlags
  /\ mgr_running' = FALSE
  /\ op' = [op EXCEPT ![c] = "reset"]
  /\ pc' = [pc EXCEPT ![c] = IF recording THEN "stop_rec" ELSE "reset_clear_data"]
  /\ UNCHANGED <<storeVars, hubVars, sink, inbox, validation_history, cur, tmp,
                 dur, resp, raised, snapshot, histVars, sched, loops, skipped, verdict>>

\* reset_session line 90: sensor_data.clear()
ResetClearData(c) ==
  /\ pc[c] = "reset_clear_data" /\ Go(c)
  /\ sensor_data' = Cleared(sensor_data)
  /\ pc' = [pc EXCEPT ![c] = "reset_clear_alerts"]
  /\ UNCHANGED <<validation_results, recording, session_start_time, hubVars,
                 simVars, envVars, validation_history, cur, tmp, op, dur, resp,
                 raised, snapshot, histVars, sched, loops, skipped, verdict>>

\* reset_session lines 91-96: validation_results.clear(), the response
ResetClearAlerts(c) ==
  /\ pc[c] = "reset_clear_alerts" /\ Go(c)
  /\ validation_results' = Cleared(validation_results)
  /\ resp' = [NoResp EXCEPT !.op = "reset", !.status = "reset"]
  /\ dur' = [dur EXCEPT ![c] = None]
  /\ op' = [op EXCEPT ![c] = "none"]
  /\ pc' = [pc EXCEPT ![c] = "idle"]
  /\ UNCHANGED <<sensor_data, recording, session_start_time, hubVars, simVars,
                 envVars, validation_history, cur, tmp, raised, snapshot,
                 histVars, sched, loops, skipped, verdict>>

\* ------------------------------------------------------- routes/sensors.py
\* get_sensor_readings line 26: events.data_manager.sensor_data.copy()
ReadReadings ==
  /\ EventOk
  /\ snapshot' = sensor_data
  /\ snapshot' # snapshot
  /\ UNCHANGED <<storeVars, hubVars, simVars, envVars, validation_history, pc,
                 cur, tmp, op, dur, resp, raised, histVars, sched, loops, skipped, verdict>>

\* ------------------------------------------------ observers and their sinks
\* DataManager.add_websocket_connection called by any caller, any number of times
ApiRegister(o) ==
  /\ EventOk /\ Len(websocket_connections) < MaxConns
  /\ websocket_connections' = AddConnection(websocket_connections, o)
  /\ sink' = [sink EXCEPT ![o] = IF sink[o] = "new" THEN "open" ELSE sink[o]]
  /\ UNCHANGED <<storeVars, bc, unreg, simVars, clock, inbox, validation_history,
                 pc, cur, tmp, op, dur, resp, raised, snapshot, histVars, sched, loops, skipped, verdict>>

\* routes/websocket.py lines 15-19: a new websocket is accepted and registered
\* (websockets are numbered in the order in which they connect)
WsConnect(o) ==
  /\ EventOk /\ sink[o] = "new" /\ Len(websocket_connections) < MaxConns
  /\ \A p \in Observers : p < o => sink[p] # "new"
  /\ websocket_connections' = AddConnection(websocket_connections, o)
  /\ sink' = [sink EXCEPT ![o] = "open"]
  /\ UNCHANGED <<storeVars, bc, unreg, simVars, clock, inbox, validation_history,
                 pc, cur, tmp, op, dur, resp, raised, snapshot, histVars, sched, loops, skipped, verdict>>

\* the peer goes away: every later send_text on the socket raises
Disconnect(o) ==
  /\ sink[o] \in {"open", "stuck"}
  /\ sink' = [sink EXCEPT ![o] = "closed"]
  /\ UNCHANGED <<storeVars, hubVars, simVars, clock, inbox, validation_history,
                 pc, cur, tmp, op, dur, resp, raised, snapshot, histVars, sched, loops, skipped, verdict>>

\* the peer stops reading: a send_text on the socket no longer completes
Stall(o) ==
  /\ sink[o] = "open"
  /\ sink' = [sink EXCEPT ![o] = "stuck"]
  /\ UNCHANGED <<storeVars, hubVars, simVars, clock, inbox, validation_history,
                 pc, cur, tmp, op, dur, resp, raised, snapshot, histVars, sched, loops, skipped, verdict>>

\* remove_websocket_connection line 132: the membership test.  Called by any
\* caller, or by the websocket handler's finally once the peer is gone
UnregisterTest(o) ==
  /\ EventOk
  /\ ApiLevel \/ sink[o] = "closed"
  /\ IF IsConnected(websocket_connections, o)
       THEN /\ unreg' = o
            /\ UNCHANGED sink
       ELSE /\ unreg' = 0
            /\ sink' = [sink EXCEPT ![o] = IF ApiLevel THEN sink[o] ELSE "gone"]
  /\ UNCHANGED <<storeVars, websocket_connections, bc, simVars, clock, inbox,
                 validation_history, pc, cur, tmp, op, dur, resp, raised,
                 snapshot, histVars, sched, loops, skipped, verdict>>

\* remove_websocket_connection line 133: list.remove, which raises ValueError
\* when the element is no longer in the list
UnregisterRemove ==
  /\ unreg # 0
  /\ IF InSeq(unreg, websocket_connections)
       THEN /\ websocket_connections' = RemoveFirst(websocket_connections, unreg)
            /\ UNCHANGED raised
       ELSE /\ raised' = raised \cup {"ValueError"}
            /\ UNCHANGED websocket_connections
  /\ sink' = [sink EXCEPT ![unreg] = IF ApiLevel THEN sink[unreg] ELSE "gone"]
  /\ unreg' = 0
  /\ UNCHANGED <<storeVars, bc, simVars, clock, inbox, validation_history, pc,
                 cur, tmp, op, dur, resp, snapshot, histVars, sched, loops, skipped, verdict>>

\* ----------------------------------------------------------- specifications
ProducerStep(t) ==
  \/ Generate(t) \/ ExitLoop(t) \/ Accept(t) \/ EvictCheck(t) \/ Slice(t)
  \/ Assign(t) \/ Validate(t)

\* the same while no request stops the simulators and the events of a run are
\* too few to fill the buffer
IngestStep(t) ==
  \/ Generate(t) \/ Accept(t) \/ EvictCheck(t) \/ Validate(t)

BroadcastStep(t) ==
  \/ BroadcastBegin(t) \/ BroadcastNext(t) \/ Deliver(t) \/ BroadcastAssign(t)

ControlStep(c) ==
  \/ StartSession(c) \/ StartClearData(c) \/ StartClearAlerts(c) \/ StartAll(c)
  \/ StopSession(c) \/ StopRecording(c) \/ StopReturn(c)
  \/ ResetSession(c) \/ ResetClearData(c) \/ ResetClearAlerts(c)

\* the session store: ingests and session requests made one at a time, with
\* no observer connected (every broadcast returns at its first test)
Next ==
  \/ \E t \in Producers : ProducerStep(t)
  \/ \E t \in Threads : BroadcastBegin(t)
  \/ ControlStep(Ctl)

Spec == Init /\ [][Next]_vars

\* start_session and what it makes start_recording do
StartSteps(c) ==
  \/ StartSession(c) \/ StartClearData(c) \/ StartClearAlerts(c) \/ StartAll(c)

\* the broadcast hub: calls made one at a time by any caller of the
\* DataManager, during sessions that are started and left running
NextHub ==
  \/ \E t \in Producers : IngestStep(t)
  \/ \E t \in Threads : BroadcastStep(t)
  \/ StartSteps(Ctl)
  \/ \E o \in Observers : ApiRegister(o) \/ Disconnect(o) \/ UnregisterTest(o)
  \/ UnregisterRemove

SpecHub == InitHub /\ [][NextHub]_vars

\* the broadcast hub as the program drives it: every websocket is registered
\* once by its handler and unregistered by it after the peer has gone; calls
\* run one at a time, sinks fail at any moment
NextWs ==
  \/ \E t \in Producers : IngestStep(t)
  \/ \E t \in Threads : BroadcastStep(t)
  \/ StartSteps(Ctl)
  \/ \E o \in Observers : WsConnect(o) \/ Disconnect(o) \/ UnregisterTest(o)
  \/ UnregisterRemove

SpecWs == InitWs /\ [][NextWs]_vars

\* the running program without observers: simulator threads, the control
\* path of the main loop and readers, freely interleaved
NextConc ==
  \/ \E t \in Producers : ProducerStep(t)
  \/ \E t \in Threads : BroadcastBegin(t)
  \/ ControlStep(Ctl)
  \/ ReadReadings

SpecConc == InitConc /\ [][NextConc]_vars

\* the running program fanning out to connected observers: simulator threads
\* and start_session, freely interleaved, while websockets connect
NextFan ==
  \/ \E t \in Producers : IngestStep(t)
  \/ \E t \in Threads : BroadcastStep(t)
  \/ StartSteps(Ctl)
  \/ \E o \in Observers : WsConnect(o)

SpecFan == InitFan /\ [][NextFan]_vars

\* the same while peers go away and their handlers unregister them
NextChurn ==
  \/ \E t \in Producers : IngestStep(t)
  \/ \E t \in Threads : BroadcastStep(t)
  \/ StartSteps(Ctl)
  \/ \E o \in Observers : WsConnect(o) \/ Disconnect(o) \/ UnregisterTest(o)
  \/ UnregisterRemove

SpecChurn == InitChurn /\ [][NextChurn]_vars

\* the session routes served concurrently by the main loop: a request runs
\* until it is suspended in a send_text of its status broadcast, and another
\* request may then be served
NextCtl ==
  \/ \E c \in Controls : ControlStep(c)
  \/ \E c \in Controls : BroadcastStep(c)
  \/ \E o \in Observers : WsConnect(o)

SpecCtl == InitCtl /\ [][NextCtl]_vars

\* the same with sinks that stop reading; the threads are scheduled fairly
\* (pre-emptive threads, and a main loop that runs every ready coroutine),
\* requests and peers come and go as they please
ControlContinue ==
  \/ StartClearData(Ctl) \/ StartClearAlerts(Ctl) \/ StartAll(Ctl)

NextLive ==
  \/ \E t \in Producers : IngestStep(t)
  \/ \E t \in Threads : BroadcastStep(t)
  \/ StartSession(Ctl) \/ ControlContinue
  \/ \E o \in Observers : WsConnect(o) \/ Stall(o) \/ Disconnect(o)

FairLive ==
  /\ \A t \in Producers : WF_vars(IngestStep(t))
  /\ \A t \in Threads : WF_vars(BroadcastStep(t))
  /\ WF_vars(ControlContinue)

SpecLive == InitLive /\ [][NextLive]_vars /\ FairLive

\* the sensor sources by themselves: start() and stop() called on any source
\* at any time, generators that fail, no session, no observer; calls one at a
\* time
NextSrc ==
  \/ \E t \in Producers : Generate(t) \/ GenerateError(t) \/ ExitLoop(t)
  \/ \E t \in Producers : Accept(t) \/ Validate(t) \/ BroadcastBegin(t)
  \/ \E k \in SensorType : SourceStart(k) \/ SourceStop(k)

SpecSrc == InitSrc /\ [][NextSrc]_vars

\* ingestion of readings built by any caller of the constructor, during a
\* session and with websockets connected; calls one at a time
NextIn ==
  \/ \E t \in Producers : IngestStep(t)
  \/ \E t \in Threads : BroadcastStep(t)
  \/ StartSteps(Ctl)
  \/ \E o \in Observers : WsConnect(o)

SpecIn == InitIn /\ [][NextIn]_vars

\* ------------------------------------------------- the validator by itself
\* payloads of direct calls, around the thresholds of each kind
TestValues(k) ==
  IF k = "force" THEN {10, 60, 62, 64, 65, 80, 81, 120}
  ELSE IF k = "motor" THEN {0 - 56, 0 - 55, 0, 55, 56}
  ELSE {29, 30, 128, 240, 241}

\* payload types of direct calls: those the validator is written for, or
\* every type SensorReading.value admits
TestShapes(k) ==
  IF sched = "pay" THEN PayloadShapes
  ELSE IF k = "camera" THEN {"record", "empty_record"}
  ELSE {"number"}

\* the payload's number (none for a dict without the field)
TestPayload(v, sh) == IF sh = "empty_record" THEN 0 ELSE v

\* DataValidator.validate_reading called with a reading of kind k
ValidateCall(k) ==
  /\ clock < Limit
  /\ clock' = clock + 1
  /\ \E v \in TestValues(k), sh \in TestShapes(k) :
       LET r == [Reading(clock + 1, k, TestPayload(v, sh)) EXCEPT !.shape = sh]
           ex == ValidationRaises(validation_history, r)
       IN  /\ verdict' = [reading |-> r,
                          alert |-> IF ex THEN NoAlert
                                    ELSE ValidateReading(validation_history, r),
                          before |-> validation_history["force"],
                          raises |-> ex,
                          arrived |-> IF k = "force"
                                        THEN Append(verdict.arrived, HistEntry(r))
                                        ELSE verdict.arrived]
           /\ raised' = IF ex THEN raised \cup {"TypeError"} ELSE raised
           /\ validation_history' = HistoryAfter(validation_history, r)
  /\ UNCHANGED <<storeVars, hubVars, simVars, pc, cur, tmp, op, dur, sink, inbox,
                 resp, snapshot, histVars, sched, loops, skipped>>

NextVal == \E k \in SensorType : ValidateCall(k)

SpecVal == InitVal /\ [][NextVal]_vars

\* the validator called with every payload a SensorReading can carry
SpecPay == InitPay /\ [][NextVal]_vars

\* ------------------------------------------------------------------ claims
\* no call is between its append and the end of its eviction, and no start is
\* between setting the flag and clearing the buffer
AcceptsComplete ==
  /\ \A t \in Producers : pc[t] \notin {"evict", "slice", "assign"}
  /\ pc[Ctl] # "start_clear_data"

\* C1: while Recording, after any sequence of complete ingest calls the
\* readings buffer holds at most MAX_DATA_POINTS readings, and they are
\* exactly the most recent min(n, MAX_DATA_POINTS) readings accepted since the
\* last start, in acceptance order (the oldest are evicted first).
C1_BoundedFifoBuffer ==
  (recording /\ AcceptsComplete) =>
    /\ Len(sensor_data) <= MAX_DATA_POINTS
    /\ sensor_data = LastN(accepted, MAX_DATA_POINTS)

C1_Witness ==
  /\ recording /\ AcceptsComplete
  /\ Len(accepted) >= MAX_DATA_POINTS + 2
  /\ sensor_data = LastN(accepted, MAX_DATA_POINTS)

\* C2: a start request made while the session is Recording is answered
\* InvalidState and changes neither the readings, the alerts, the recording
\* flag nor session_start.
C2_StartWhileRecordingRejected ==
  [][(recording /\ StartSession(Ctl)) =>
       /\ resp'.op = "start" /\ resp'.status = "InvalidState"
       /\ UNCHANGED <<sensor_data, validation_results, recording, session_start_time>>
       /\ pc'[Ctl] = "idle"]_vars

C2_Witness ==
  /\ resp.op = "start" /\ resp.status = "InvalidState"
  /\ recording /\ sensor_data # <<>> /\ validation_results # <<>>

\* C3: a stop request made while the session is Idle is answered InvalidState
\* and changes neither the recording flag, the readings, the alerts,
\* session_start nor the running flags of the sensor sources.
C3_StopWhileIdleRejected ==
  [][(~recording /\ StopSession(Ctl)) =>
       /\ resp'.op = "stop" /\ resp'.status = "InvalidState"
       /\ UNCHANGED <<sensor_data, validation_results, recording, session_start_time,
                      running, mgr_running>>
       /\ pc'[Ctl] = "idle"]_vars

C3_Witness ==
  /\ resp.op = "stop" /\ resp.status = "InvalidState"
  /\ ~recording /\ sensor_data # <<>>

\* C4: for every finished broadcast (sensor_data, validation or system_status):
\* an observer whose delivery failed is absent from the observer list when the
\* call returns, nothing was raised to a caller, every observer of the list at
\* the start of the call was tried, and every observer whose delivery succeeded
\* has the message in its inbox and is still in the list.
C4_FailedObserverDropped ==
  last.by # "none" =>
    /\ \A o \in last.failed : ~InSeq(o, last.after)
    /\ \A i \in 1..Len(last.before) : last.before[i] \in last.sent \cup last.failed
    /\ \A o \in last.sent : InSeq(o, last.after) /\ InSeq(last.msg, inbox[o])
    /\ raised = {}

C4_Witness ==
  /\ last.msg.type = "sensor_data"
  /\ last.failed # {} /\ last.sent # {}
  /\ \A o \in last.failed : ~InSeq(o, websocket_connections)

\* C5: registering an observer that is already registered is a no-op, so no
\* observer is ever held more than once in the observer list.
C5_RegisterIdempotent ==
  \A o \in Observers : Count(o, websocket_connections) <= 1

\* C6: unregistering an observer that is not in the observer list raises
\* nothing and leaves the list (members and order) unchanged.
C6_UnregisterAbsentNoOp ==
  [][\A o \in Observers :
       (UnregisterTest(o) /\ ~InSeq(o, websocket_connections)) =>
         /\ unreg' = 0
         /\ raised' = raised
         /\ websocket_connections' = websocket_connections]_vars

C6_Witness ==
  \E o \in Observers :
    /\ sink[o] = "gone" /\ o \in last.failed
    /\ unreg = 0 /\ raised = {}
    /\ websocket_connections # <<>>

\* C7: broadcasts are serialized: every observer receives the messages of the
\* broadcasts it is served by in the order in which the broadcasts started.
C7_DeliveryInStartOrder ==
  \A o \in Observers : \A i, j \in 1..Len(inbox[o]) :
    i < j => inbox[o][i].bid < inbox[o][j].bid

\* thread t is between the first and the last write of one mutation of the
\* readings/alerts buffers: append .. eviction, or the clears of start / reset
InStoreMutation(t) ==
  IF t \in Controls THEN pc[t] \in {"start_clear_data", "start_clear_alerts", "reset_clear_alerts"}
  ELSE pc[t] \in {"evict", "slice", "assign"}

\* thread t is building the list that will replace the observer list, or is
\* between the membership test and the remove of an unregister
InHubMutation(t) ==
  \/ pc[t] \in {"b_next", "b_send", "b_assign"}
  \/ t \in Controls /\ unreg # 0

\* C8: mutations are mutually exclusive per resource: never two call-paths in
\* the middle of mutating the readings/alerts buffers, never two in the middle
\* of mutating or replacing the observer list.
C8_SingleWriter ==
  /\ Cardinality({t \in Threads : InStoreMutation(t)}) <= 1
  /\ Cardinality({t \in Threads : InHubMutation(t)}) <= 1

\* C9: a reader never observes a partially-evicted buffer: every copy a
\* reader takes holds at most MAX_DATA_POINTS readings.
C9_ReaderSeesBoundedBuffer ==
  Len(snapshot) <= MAX_DATA_POINTS

InBroadcast(t) == pc[t] \in {"b_begin", "b_next", "b_send", "b_assign"}

\* C10: delivery is bounded per observer: whatever the observers do, every
\* broadcast returns, so that its caller proceeds.
C10_BroadcastReturns ==
  \A t \in Threads : InBroadcast(t) ~> ~InBroadcast(t)

\* C11: when stop() on a sensor source returns its running flag is false, and
\* while the flag stays false the source builds no further reading: all it
\* can still deliver is the reading of the tick that was under way.
C11_StoppedSourceIsSilent ==
  [][/\ \A k \in SensorType : SourceStop(k) => ~running'[k]
     /\ \A t \in Producers :
          ~running[KindOf(t)] => (cur'[t] = cur[t] \/ cur'[t] = NoReading)]_vars

C11_Witness ==
  \E k \in SensorType :
    /\ resp.op = "source_stop" /\ ~running[k]
    /\ pc[k] = "validate" /\ cur[k] # NoReading
    /\ nbcast > 0

\* C12: start() on a sensor source that is already running is a no-op: the
\* flag stays true and no further loop is created.
C12_StartIdempotent ==
  [][\A k \in SensorType :
       (SourceStart(k) /\ running[k]) =>
         /\ running'[k]
         /\ loops'[k] = loops[k]
         /\ pc'[k] = pc[k]]_vars

C12_Witness ==
  \E k \in SensorType :
    /\ resp.op = "source_start" /\ resp.status = "already_running"
    /\ running[k] /\ loops[k] = 1 /\ pc[k] # "dead"

\* C13: a tick whose generator raises delivers nothing (no reading is built,
\* stored, validated or broadcast), and the loop of the source goes on with
\* its flag unchanged.
C13_GeneratorErrorSkipsTick ==
  [][\A t \in Producers :
       GenerateError(t) =>
         /\ pc'[t] = "loop"
         /\ running'[KindOf(t)]
         /\ cur' = cur
         /\ UNCHANGED <<sensor_data, validation_results, validation_history,
                        nbcast, inbox, loops>>]_vars

\* a reading of a later tick is delivered by a source that skipped a tick
C13_Witness ==
  \E t \in Producers :
    /\ skipped[KindOf(t)] > 0
    /\ cur[t].timestamp > skipped[KindOf(t)]
    /\ pc[t] = "b_begin"

\* thread t is inside the consumer invocation asyncio.run(self.callback(reading))
InConsumer(t) ==
  pc[t] \in {"evict", "slice", "assign", "validate", "b_begin", "b_next", "b_send", "b_assign"}

\* C14: a sensor source is never blocked inside the consumer invocation: its
\* loop always comes back from the callback, whatever the consumer does.
C14_SourceLeavesConsumer ==
  \A t \in Producers : InConsumer(t) ~> ~InConsumer(t)

\* C15: for each ingested reading the steps run in the order accept, validate,
\* record the alert, broadcast validation, broadcast sensor_data: while a
\* message of a reading is being broadcast the reading is stored (when
\* Recording), while its validation message is being broadcast its alert is in
\* the alerts buffer, and no observer receives the sensor_data message of a
\* reading before its validation message.
C15_AlertBeforeDataPoint ==
  /\ \A t \in Producers :
       InBroadcast(t) =>
         /\ recording => InSeq(cur[t], sensor_data)
         /\ bc[t].msg.type = "validation" =>
              \E i \in 1..Len(validation_results) :
                validation_results[i].timestamp = bc[t].msg.ref
  /\ \A o \in Observers : \A i, j \in 1..Len(inbox[o]) :
       (/\ inbox[o][i].type = "validation"
        /\ inbox[o][j].type = "sensor_data"
        /\ inbox[o][i].ref = inbox[o][j].ref) => i < j

C15_Witness ==
  \E o \in Observers : \E i, j \in 1..Len(inbox[o]) :
    /\ inbox[o][i].type = "validation"
    /\ inbox[o][j].type = "sensor_data"
    /\ inbox[o][i].ref = inbox[o][j].ref
    /\ i < j

\* C16: every ingested reading is broadcast as a sensor_data message, whatever
\* the recording state and the outcome of validation: an ingest call only
\* returns from the broadcast of its reading's sensor_data message.
C16_AlwaysBroadcast ==
  [][\A t \in Producers :
       (InConsumer(t) /\ pc'[t] = "loop") =>
         /\ bc[t].msg.type = "sensor_data"
         /\ bc[t].msg.ref = cur[t].timestamp]_vars

\* C17: an ingest that finds the session Idle leaves the readings buffer
\* unchanged and goes on to validate (and broadcast) the reading; while the
\* session stays Idle the buffer changes only by being cleared by a reset.
C17_IdleIngestNotStored ==
  [][/\ \A t \in Producers :
          (Accept(t) /\ ~recording) =>
            (sensor_data' = sensor_data /\ pc'[t] = "validate")
     /\ (~recording /\ ~recording' /\ sensor_data' # sensor_data) =>
          (op[Ctl] = "reset" /\ sensor_data' = <<>>)]_vars

\* after a stop, a reading that arrived later is being broadcast and is not
\* in the buffer, which is as the stop reported it
C17_Witness ==
  \E t \in Producers :
    /\ ~recording /\ resp.op = "stop" /\ resp.status = "stopped"
    /\ pc[t] = "b_begin" /\ bc[t].msg.ref = cur[t].timestamp
    /\ ~InSeq(cur[t], sensor_data)
    /\ sensor_data # <<>> /\ Len(sensor_data) = resp.total_readings

\* C18: every alert the validator returns for an ingested reading is appended
\* to the end of the alerts buffer, Recording or Idle; the alerts buffer
\* shrinks only by the clear of a start or of a reset.
C18_AlertsAppendOnly ==
  [][/\ \A t \in Producers :
          (Validate(t) /\ ValidateReading(validation_history, cur[t]) # NoAlert) =>
            validation_results' =
              Append(validation_results, ValidateReading(validation_history, cur[t]))
     /\ Len(validation_results') < Len(validation_results) =>
          (validation_results' = <<>> /\ (StartClearAlerts(Ctl) \/ ResetClearAlerts(Ctl)))]_vars

\* an alert was appended after the stop reported its count, and the buffer
\* holds more alerts than the readings buffer may hold readings
C18_Witness ==
  /\ ~recording /\ resp.op = "stop" /\ resp.status = "stopped"
  /\ Len(validation_results) > resp.validation_alerts
  /\ Len(validation_results) > MAX_DATA_POINTS

\* the spike rule would fire on the reading of the last direct call
SpikeAtVerdict ==
  /\ Len(verdict.before) >= 2
  /\ Abs(verdict.reading.value - verdict.before[Len(verdict.before) - 1].value) > SPIKE_DELTA

\* C19: for every FORCE reading with value > FORCE_THRESHOLD_HIGH the
\* validator returns an alert of status ERROR, whatever the FORCE history.
C19_CriticalForceIsError ==
  (verdict.reading.sensor_type = "force" /\ verdict.reading.value > FORCE_THRESHOLD_HIGH)
    => (verdict.alert.status = "error" /\ verdict.alert.actual = verdict.reading.value)

C19_Witness ==
  /\ verdict.reading.sensor_type = "force"
  /\ verdict.reading.value > FORCE_THRESHOLD_HIGH
  /\ verdict.alert.status = "error"
  /\ SpikeAtVerdict

\* C20: for every FORCE reading with 0.8 * FORCE_THRESHOLD_HIGH < value <=
\* FORCE_THRESHOLD_HIGH the validator returns the approaching-limit alert, of
\* status WARNING, whatever the FORCE history.
C20_NearLimitForceIsWarning ==
  (/\ verdict.reading.sensor_type = "force"
   /\ verdict.reading.value * 10 > FORCE_THRESHOLD_HIGH * 8
   /\ verdict.reading.value <= FORCE_THRESHOLD_HIGH)
    => (verdict.alert.status = "warning" /\ verdict.alert.message = "approaching_limit")

C20_Witness ==
  /\ verdict.reading.sensor_type = "force"
  /\ verdict.reading.value = FORCE_THRESHOLD_HIGH
  /\ verdict.alert.status = "warning"
  /\ verdict.alert.message = "approaching_limit"
  /\ SpikeAtVerdict

\* C21: for every FORCE reading with value <= 0.8 * FORCE_THRESHOLD_HIGH and
\* no recent spike (fewer than 3 FORCE history entries including this one, or
\* the newest and the oldest of the last 3 differ by at most SPIKE_DELTA) the
\* validator returns no alert.
C21_QuietForceNoAlert ==
  (/\ verdict.reading.sensor_type = "force"
   /\ verdict.reading.value * 10 <= FORCE_THRESHOLD_HIGH * 8
   /\ ~SpikeAtVerdict)
    => verdict.alert = NoAlert

\* no alert although the reading differs by more than SPIKE_DELTA from the
\* one before it: the oldest of the last three is close
C21_Witness ==
  /\ verdict.reading.sensor_type = "force"
  /\ verdict.reading.value * 10 <= FORCE_THRESHOLD_HIGH * 8
  /\ Len(verdict.before) >= 2
  /\ ~SpikeAtVerdict
  /\ Abs(verdict.reading.value - verdict.before[Len(verdict.before)].value) > SPIKE_DELTA
  /\ verdict.alert = NoAlert

\* the payload is not what the validator of the reading's kind reads: its
\* type does not match the kind, or the camera dict has no brightness
Malformed(r) ==
  IF r.sensor_type = "camera" THEN r.shape # "record" ELSE r.shape # "number"

\* C22: validate never raises to its caller, for any reading that can be
\* constructed; for a malformed payload it returns no alert.
C22_ValidateNeverRaises ==
  /\ ~verdict.raises
  /\ Malformed(verdict.reading) => verdict.alert = NoAlert

\* C23: for every MOTOR reading the validator returns a WARNING alert if and
\* only if the value is above MOTOR_THRESHOLD or below -MOTOR_THRESHOLD, and
\* no alert otherwise, the two thresholds included.
C23_MotorWarningIffBeyondThreshold ==
  verdict.reading.sensor_type = "motor" =>
    IF \/ verdict.reading.value > MOTOR_THRESHOLD
       \/ verdict.reading.value < 0 - MOTOR_THRESHOLD
      THEN /\ verdict.alert.status = "warning"
           /\ verdict.alert.sensor_type = "motor"
           /\ verdict.alert.actual = verdict.reading.value
      ELSE verdict.alert = NoAlert

\* a reverse speed beyond the threshold is warned about
C23_Witness ==
  /\ verdict.reading.sensor_type = "motor"
  /\ verdict.reading.value < 0 - MOTOR_THRESHOLD
  /\ verdict.alert.status = "warning"

\* C24: for every CAMERA reading the validator returns the insufficient-
\* lighting WARNING iff brightness < 30, the overexposure WARNING iff
\* brightness > 240, no alert for 30 <= brightness <= 240, and no alert for a
\* payload without a brightness field (taken as brightness 128).
C24_CameraBrightnessBands ==
  verdict.reading.sensor_type = "camera" =>
    IF verdict.reading.shape = "empty_record" THEN verdict.alert = NoAlert
    ELSE IF verdict.reading.value < BRIGHTNESS_LOW
      THEN /\ verdict.alert.status = "warning"
           /\ verdict.alert.message = "insufficient_lighting"
    ELSE IF verdict.reading.value > BRIGHTNESS_HIGH
      THEN /\ verdict.alert.status = "warning"
           /\ verdict.alert.message = "overexposure"
    ELSE verdict.alert = NoAlert

\* a camera payload without a brightness was validated
C24_Witness ==
  /\ verdict.reading.sensor_type = "camera"
  /\ verdict.reading.shape = "empty_record"
  /\ verdict.alert = NoAlert
  /\ ~verdict.raises

\* C25: reset, from Idle or from Recording, ends with the session Idle, the
\* readings buffer empty, the alerts buffer empty and session_start cleared.
C25_ResetClearsSession ==
  [][ResetClearAlerts(Ctl) =>
       /\ ~recording'
       /\ sensor_data' = <<>>
       /\ validation_results' = <<>>
       /\ session_start_time' = None]_vars

\* C26: a successful start from Idle ends with the session Recording, the
\* readings buffer and the alerts buffer empty and session_start set to the
\* time of the request, whatever the buffers held before.
C26_StartBeginsEmptySession ==
  [][StartAll(Ctl) =>
       /\ recording'
       /\ sensor_data' = <<>>
       /\ validation_results' = <<>>
       /\ session_start_time' = clock
       /\ resp'.op = "start" /\ resp'.status = "recording"]_vars

\* a start has just succeeded after an earlier session whose critical FORCE
\* reading had left an alert behind
C26_Witness ==
  /\ resp.op = "start" /\ resp.status = "recording"
  /\ recording /\ session_start_time = clock
  /\ sensor_data = <<>> /\ validation_results = <<>>
  /\ \E i \in 1..Len(validation_history["force"]) :
       validation_history["force"][i].value > FORCE_THRESHOLD_HIGH

\* C27: a successful stop from Recording sets the session Idle, returns a
\* summary whose reading and alert counts are the lengths of the two buffers,
\* and changes neither the readings buffer, the alerts buffer nor
\* session_start, from the request to the response.
C27_StopKeepsBuffers ==
  [][/\ StopReturn(Ctl) =>
          /\ ~recording'
          /\ resp'.op = "stop" /\ resp'.status = "stopped"
          /\ resp'.total_readings = Len(sensor_data')
          /\ resp'.validation_alerts = Len(validation_results')
          /\ session_start_time' # None
     /\ ((recording /\ StopSession(Ctl)) \/ op[Ctl] = "stop") =>
          UNCHANGED <<sensor_data, validation_results, session_start_time>>]_vars

\* a stop has just answered for a session that evicted readings and holds an
\* alert
C27_Witness ==
  /\ resp.op = "stop" /\ resp.status = "stopped" /\ ~recording
  /\ pc[Ctl] = "idle"
  /\ resp.total_readings = Len(sensor_data) /\ sensor_data # <<>>
  /\ Len(accepted) > Len(sensor_data)
  /\ resp.validation_alerts = Len(validation_results) /\ validation_results # <<>>
  /\ session_start_time # None

\* the fields a summary is made of
SummaryFields ==
  {"total_readings", "sensor_breakdown", "session_duration_seconds",
   "recording_active", "connected_clients"}

\* C28: in every state get_summary returns the total reading count, a
\* per-kind breakdown whose counts sum to the total, the duration (last minus
\* first timestamp of the buffer with 2 readings or more, null with fewer,
\* the empty buffer included), the recording flag and the observer count.
C28_SummaryInEveryState ==
  LET s == GetDataSummary
  IN  /\ SummaryFields \subseteq DOMAIN s
      /\ s.total_readings = Len(sensor_data)
      /\ SumOf(s.sensor_breakdown) = s.total_readings
      /\ s.session_duration_seconds =
           IF Len(sensor_data) >= 2
             THEN sensor_data[Len(sensor_data)].timestamp - sensor_data[1].timestamp
             ELSE None
      /\ s.recording_active = recording
      /\ s.connected_clients = Len(websocket_connections)

\* the queries of a reader: any kind or none, a limit from 1, times from 0
QueryKinds == SensorType \cup {NoKind}
QueryTimes == {None} \cup 0..Limit

\* reading r passes every filter the query supplies
Matches(r, kind, start_time, end_time) ==
  /\ kind # NoKind => r.sensor_type = kind
  /\ start_time # None => r.timestamp >= start_time
  /\ end_time # None => r.timestamp <= end_time

\* C29: get_recent_readings(kind, start_time, end_time, limit) returns, in
\* buffer order, exactly the last limit readings of the buffer that pass
\* every supplied filter (all of them when fewer than limit pass).
C29_RecentReadingsFiltered ==
  \A kind \in QueryKinds, limit \in 1..MaxQueryLimit :
    \A start_time \in QueryTimes, end_time \in QueryTimes :
      GetSensorReadings(kind, limit, start_time, end_time) =
        LastN(SelectSeq(sensor_data,
                        LAMBDA r : Matches(r, kind, start_time, end_time)), limit)

\* C30: constructing a reading with timestamp <= 0 is rejected with an error,
\* so every reading that reaches ingest, the readings buffer or an observer
\* has timestamp > 0.
C30_TimestampsPositive ==
  /\ \A t \in Producers : cur[t] # NoReading => cur[t].timestamp > 0
  /\ \A i \in 1..Len(sensor_data) : sensor_data[i].timestamp > 0
  /\ \A o \in Observers : \A i \in 1..Len(inbox[o]) :
       inbox[o][i].type \in {"sensor_data", "validation"} => inbox[o][i].ref > 0

\* a construction was rejected, and a reading built afterwards is in the
\* buffer and was delivered to an observer
C30_Witness ==
  /\ "ValueError" \in raised
  /\ sensor_data # <<>>
  /\ \E o \in Observers : \E i \in 1..Len(inbox[o]) :
       /\ inbox[o][i].type = "sensor_data"
       /\ inbox[o][i].ref = sensor_data[Len(sensor_data)].timestamp

\* C31: the validator returns at most one alert per reading, the first
\* matching rule winning: for a FORCE reading with value <= 0.8 *
\* FORCE_THRESHOLD_HIGH the force-spike WARNING is returned if and only if
\* the FORCE history holds 3 entries or more (this reading included) and the
\* newest and the oldest of the last 3 differ by more than SPIKE_DELTA, also
\* when the newest value is low and the difference comes from an earlier
\* high reading; above that value one of the two threshold alerts is
\* returned instead, never the spike alert.
C31_SpikeIffLastThreeDiffer ==
  verdict.reading.sensor_type = "force" =>
    /\ verdict.reading.value * 10 <= FORCE_THRESHOLD_HIGH * 8 =>
         ((verdict.alert.status = "warning" /\ verdict.alert.message = "force_spike")
            <=> SpikeAtVerdict)
    /\ verdict.reading.value * 10 > FORCE_THRESHOLD_HIGH * 8 =>
         verdict.alert.message \in {"critical_force", "approaching_limit"}

\* a low reading is reported as a spike because of a high reading two
\* validations earlier
C31_Witness ==
  /\ verdict.reading.sensor_type = "force"
  /\ verdict.reading.value * 10 <= FORCE_THRESHOLD_HIGH * 8
  /\ Len(verdict.before) >= 2
  /\ verdict.before[Len(verdict.before) - 1].value > FORCE_THRESHOLD_HIGH
  /\ verdict.reading.value < verdict.before[Len(verdict.before) - 1].value
  /\ verdict.alert.status = "warning" /\ verdict.alert.message = "force_spike"

\* C32: every FORCE reading given to validate is appended to the FORCE
\* history before the rules are evaluated, whatever the alert, and after any
\* sequence of validations the history holds exactly the values of the last
\* min(n, HISTORY_CAP) FORCE readings in arrival order.
C32_ForceHistoryIsWindow ==
  /\ Len(validation_history["force"]) <= HISTORY_CAP
  /\ validation_history["force"] = LastN(verdict.arrived, HISTORY_CAP)
  /\ verdict.reading.sensor_type = "force" =>
       validation_history["force"][Len(validation_history["force"])].value
         = verdict.reading.value

\* the history is full and has dropped its oldest entry, and the reading of
\* the last call, a critical one, is its newest entry
C32_Witness ==
  /\ Len(verdict.arrived) > HISTORY_CAP
  /\ Len(validation_history["force"]) = HISTORY_CAP
  /\ verdict.arrived[1] # verdict.arrived[2]
  /\ verdict.reading.sensor_type = "force"
  /\ verdict.alert.status = "error"

\* the FORCE history a call finds when only FORCE readings leave a trace:
\* the window over the FORCE readings that arrived before the call's reading
ForceOnlyHistory ==
  LET n == Len(verdict.arrived)
      earlier == IF verdict.reading.sensor_type = "force"
                   THEN SubSeq(verdict.arrived, 1, n - 1) ELSE verdict.arrived
  IN  LastN(earlier, HISTORY_CAP)

\* C33: the validator holds no cross-kind state: validating a MOTOR or
\* CAMERA reading leaves the FORCE history as it was, and the outcome of
\* validating a reading is what a validator that saw only the FORCE readings
\* returns, whatever readings of the other kinds were validated before.
C33_NoCrossKindState ==
  verdict.reading # NoReading =>
    /\ verdict.before = ForceOnlyHistory
    /\ verdict.reading.sensor_type # "force" =>
         validation_history["force"] = verdict.before
    /\ verdict.alert =
         ValidateReading([k \in SensorType |->
                            IF k = "force" THEN ForceOnlyHistory ELSE <<>>],
                         verdict.reading)

\* readings of other kinds were validated before a FORCE reading that was
\* found to be a spike against the FORCE reading two FORCE validations back
C33_Witness ==
  /\ verdict.reading.sensor_type = "force"
  /\ Len(verdict.before) >= 2
  /\ verdict.reading.timestamp > Len(verdict.arrived)
  /\ verdict.alert.message = "force_spike"

\* no call-path is inside a broadcast
NoBroadcast == \A t \in Threads : ~InBroadcast(t)

\* C34: an observer that has been registered, is never unregistered and whose
\* every delivery succeeds is never dropped: whenever no broadcast is in
\* progress it is in the observer list, also when it registered while a
\* broadcast was in the middle of its delivery loop.
C34_HealthyObserverKept ==
  NoBroadcast =>
    \A o \in Observers : sink[o] = "open" => InSeq(o, websocket_connections)

\* C35: once unregister(o) has returned and the broadcasts that were in
\* progress then have completed, o is not in the observer list: a broadcast
\* in flight never puts an unregistered observer back.
C35_UnregisteredStaysOut ==
  (NoBroadcast /\ unreg = 0) =>
    \A o \in Observers : sink[o] = "gone" => ~InSeq(o, websocket_connections)

\* C36: for each sensor source at most one generation loop is alive and
\* delivering at any time, also when start() follows a stop() whose bounded
\* join returned before the loop had ended.
C36_OneLoopPerSource == \A k \in SensorType : loops[k] <= 1

\* no session control request is being served
NoControlRequest == \A c \in Controls : pc[c] = "idle"

\* C37: whenever no session control request is in progress the sensor sources
\* are running exactly when the session is Recording, for every interleaving
\* of concurrent requests that suspend at their status broadcast.
C37_SourcesRunIffRecording ==
  NoControlRequest =>
    /\ mgr_running = recording
    /\ \A k \in SensorType : running[k] = recording

\* every ingest call and every session request has completed
IngestsComplete ==
  /\ \A t \in Producers : pc[t] \notin {"evict", "slice", "assign"}
  /\ \A c \in Controls : pc[c] = "idle"

\* C38: no accepted reading is lost under concurrency: with the producers
\* ingesting concurrently and a start in progress, every reading whose ingest
\* observed Recording after that start is in the buffer once all ingests have
\* completed, unless it is among the oldest that were evicted.
C38_NoAcceptedReadingLost ==
  (recording /\ IngestsComplete) =>
    LET kept == LastN(accepted, MAX_DATA_POINTS)
    IN  \A i \in 1..Len(kept) : InSeq(kept[i], sensor_data)

====
